---- MODULE Spec2Model ----
(***************************************************************************)
(* A model of unfurlbot's unfurl pipeline.                                 *)
(*                                                                         *)
(* Strings are sequences of one-character strings, so that the regular     *)
(* expressions of JiraUnfurler.extract_issues and the key encoding of      *)
(* SlackUnfurlEventKey.__str__ are computed character by character.        *)
(* An optional value (str | None) is a sequence of length 0 (None) or 1    *)
(* (the value).  The backtick and the double quote cannot be written in a  *)
(* TLA+ string: they are the characters BT and DQ.                         *)
(***************************************************************************)
EXTENDS Integers, Sequences, FiniteSets, TLC

(***************************************************************************)
(* Characters and strings                                                  *)
(***************************************************************************)
BT == "backtick"

DQ == "dquote"

Digits == {"0", "1", "2", "3", "4", "5", "6", "7", "8", "9"}

Upper == {"A", "B", "C", "D", "E", "F", "G", "H", "I", "J", "K", "L", "M",
          "N", "O", "P", "Q", "R", "S", "T", "U", "V", "W", "X", "Y", "Z"}

Lower == {"a", "b", "c", "d", "e", "f", "g", "h", "i", "j", "k", "l", "m",
          "n", "o", "p", "q", "r", "s", "t", "u", "v", "w", "x", "y", "z"}

\* \w of Python's re for the ASCII range
IsWord(c) == c \in Digits \cup Upper \cup Lower \cup {"_"}

\* \s of Python's re for the ASCII range
IsSpace(c) == c \in {" ", "\t", "\n", "\r", "\f"}

\* the ASCII characters in code point order (tab, newline, then 32..126)
Ascii ==
  <<"\t", "\n", " ", "!", DQ, "#", "$", "%", "&", "'", "(", ")", "*", "+",
    ",", "-", ".", "/", "0", "1", "2", "3", "4", "5", "6", "7", "8", "9",
    ":", ";", "<", "=", ">", "?", "@",
    "A", "B", "C", "D", "E", "F", "G", "H", "I", "J", "K", "L", "M",
    "N", "O", "P", "Q", "R", "S", "T", "U", "V", "W", "X", "Y", "Z",
    "[", "\\", "]", "^", "_", BT,
    "a", "b", "c", "d", "e", "f", "g", "h", "i", "j", "k", "l", "m",
    "n", "o", "p", "q", "r", "s", "t", "u", "v", "w", "x", "y", "z",
    "{", "|", "}", "~">>

Ord(c) == CHOOSE i \in 1..Len(Ascii) : Ascii[i] = c

Min(S) == CHOOSE x \in S : \A y \in S : x <= y

\* Python's str comparison: lexicographic by code point
RECURSIVE StrLess(_, _)
StrLess(a, b) ==
  IF b = <<>> THEN FALSE
  ELSE IF a = <<>> THEN TRUE
  ELSE IF Head(a) = Head(b) THEN StrLess(Tail(a), Tail(b))
  ELSE Ord(Head(a)) < Ord(Head(b))

\* sorted(S) for a set of strings
RECURSIVE Sorted(_)
Sorted(S) ==
  IF S = {} THEN <<>>
  ELSE LET m == CHOOSE x \in S : \A y \in S \ {x} : StrLess(x, y)
       IN  <<m>> \o Sorted(S \ {m})

StartsWith(s, p) == Len(s) >= Len(p) /\ SubSeq(s, 1, Len(p)) = p

\* the least index j >= i at which p occurs in s, or 0
FindFrom(s, p, i) ==
  LET C == {j \in i..(Len(s) - Len(p) + 1) : SubSeq(s, j, j + Len(p) - 1) = p}
  IN  IF C = {} THEN 0 ELSE Min(C)

\* a regular expression that is a literal string, except that "." matches
\* any character but a newline, matched at the start of s
PatMatch(pat, s) ==
  /\ Len(s) >= Len(pat)
  /\ \A k \in 1..Len(pat) :
       IF pat[k] = "." THEN s[k] # "\n" ELSE s[k] = pat[k]

\* re.sub(pat, repl, s) for such a pattern
RECURSIVE SubPat(_, _, _)
SubPat(pat, repl, s) ==
  IF s = <<>> THEN <<>>
  ELSE IF PatMatch(pat, s)
       THEN repl \o SubPat(pat, repl, SubSeq(s, Len(pat) + 1, Len(s)))
       ELSE <<Head(s)>> \o SubPat(pat, repl, Tail(s))

(***************************************************************************)
(* Configuration (config.py)                                               *)
(***************************************************************************)
\* Config.jira_root_url, default "https://jira.lsstcorp.org"
jira_root_url ==
  <<"h", "t", "t", "p", "s", ":", "/", "/", "j", "i", "r", "a", ".",
    "l", "s", "s", "t", "c", "o", "r", "p", ".", "o", "r", "g">>

\* Config.parsed_jira_projects for the default jira_projects "DM,RFC"
parsed_jira_projects == << <<"D", "M">>, <<"R", "F", "C">> >>

\* Config.slack_debounce_time, seconds
slack_debounce_time == 300

\* Config.slack_trigger_message_ttl, seconds
slack_trigger_message_ttl == 60

(***************************************************************************)
(* JiraUnfurler.extract_issues                                             *)
(***************************************************************************)
Fence == <<BT, BT, BT>>

\* re.sub(r"```.*?```", "", text) without re.DOTALL: a block ends on its line
RECURSIVE StripFencedLine(_)
StripFencedLine(s) ==
  IF s = <<>> THEN <<>>
  ELSE LET q == IF StartsWith(s, Fence) THEN FindFrom(s, Fence, 4) ELSE 0
           ok == q # 0 /\ \A k \in 4..(q - 1) : s[k] # "\n"
       IN  IF ok
           THEN StripFencedLine(SubSeq(s, q + 3, Len(s)))
           ELSE <<Head(s)>> \o StripFencedLine(Tail(s))

\* re.sub(r"```.*?```", "", text, flags=re.DOTALL)
RECURSIVE StripFenced(_)
StripFenced(s) ==
  IF s = <<>> THEN <<>>
  ELSE LET q == IF StartsWith(s, Fence) THEN FindFrom(s, Fence, 4) ELSE 0
       IN  IF q # 0
           THEN StripFenced(SubSeq(s, q + 3, Len(s)))
           ELSE <<Head(s)>> \o StripFenced(Tail(s))

\* re.sub(r"`.*?`", "", text): "." does not match a newline
RECURSIVE StripInline(_)
StripInline(s) ==
  IF s = <<>> THEN <<>>
  ELSE LET q == IF Head(s) = BT THEN FindFrom(s, <<BT>>, 2) ELSE 0
           ok == q # 0 /\ \A k \in 2..(q - 1) : s[k] # "\n"
       IN  IF ok
           THEN StripInline(SubSeq(s, q + 1, Len(s)))
           ELSE <<Head(s)>> \o StripInline(Tail(s))

\* the text with its Jira URLs left as they are
KeepBrowse(s) == s

\* re.sub(rf"{self._jira_host}/browse/", "", text)
StripBrowse(s) ==
  SubPat(jira_root_url \o <<"/", "b", "r", "o", "w", "s", "e", "/">>, <<>>, s)

\* re.sub(r"tickets/DM-", "DM-", text)
TicketsDM(s) ==
  SubPat(<<"t", "i", "c", "k", "e", "t", "s", "/", "D", "M", "-">>,
         <<"D", "M", "-">>, s)

\* the number of leading characters of s that are not whitespace
RECURSIVE NonSpaceRun(_)
NonSpaceRun(s) ==
  IF s = <<>> \/ IsSpace(Head(s)) THEN 0 ELSE 1 + NonSpaceRun(Tail(s))

\* the length of the match of r"https?://\S+" at the start of s, or 0
UrlMatch(s) ==
  LET n == IF StartsWith(s, <<"h", "t", "t", "p", "s", ":", "/", "/">>) THEN 8
           ELSE IF StartsWith(s, <<"h", "t", "t", "p", ":", "/", "/">>) THEN 7
           ELSE 0
      k == IF n = 0 THEN 0 ELSE NonSpaceRun(SubSeq(s, n + 1, Len(s)))
  IN  IF k = 0 THEN 0 ELSE n + k

\* re.sub(r"https?://\S+", "", text)
RECURSIVE StripUrls(_)
StripUrls(s) ==
  IF s = <<>> THEN <<>>
  ELSE LET n == UrlMatch(s)
       IN  IF n # 0 THEN StripUrls(SubSeq(s, n + 1, Len(s)))
           ELSE <<Head(s)>> \o StripUrls(Tail(s))

\* JiraUnfurler.get_projects
get_projects == parsed_jira_projects

\* the number of leading digits of s
RECURSIVE DigitRun(_)
DigitRun(s) ==
  IF s = <<>> \/ Head(s) \notin Digits THEN 0 ELSE 1 + DigitRun(Tail(s))

\* a key pattern without \b: a match may start anywhere
NoBoundary(s, p) == TRUE

\* \b before position p of s
WordBoundary(s, p) ==
  LET before == p > 1 /\ IsWord(s[p - 1])
      after  == p <= Len(s) /\ IsWord(s[p])
  IN  before # after

\* the end index of the match of rf"\b((?:{'|'.join(projects)})-\d+)" that
\* starts at position p of s, or 0
KeyMatch(s, p) ==
  LET rest == SubSeq(s, p, Len(s))
      alts == {i \in 1..Len(get_projects) :
                 /\ StartsWith(rest, get_projects[i] \o <<"-">>)
                 /\ DigitRun(SubSeq(rest, Len(get_projects[i]) + 2,
                                    Len(rest))) > 0}
  IN  IF ~WordBoundary(s, p) \/ alts = {} THEN 0
      ELSE LET i == Min(alts)
               n == Len(get_projects[i]) + 1
           IN  p + n + DigitRun(SubSeq(rest, n + 1, Len(rest))) - 1

\* re.findall(key_pattern, text), scanning from position p
RECURSIVE FindKeys(_, _)
FindKeys(s, p) ==
  IF p > Len(s) THEN <<>>
  ELSE LET e == KeyMatch(s, p)
       IN  IF e # 0 THEN <<SubSeq(s, p, e)>> \o FindKeys(s, e + 1)
           ELSE FindKeys(s, p + 1)

Range(f) == {f[i] : i \in DOMAIN f}

\* re.findall's matches as they stand, neither deduplicated nor sorted
extract_matches(message_text) ==
  FindKeys(StripUrls(TicketsDM(StripBrowse(StripInline(
             StripFenced(message_text))))), 1)

extract_issues(message_text) ==
  LET t1 == StripFenced(message_text)
      t2 == StripInline(t1)
      t3 == StripBrowse(t2)
      t4 == TicketsDM(t3)
      t5 == StripUrls(t4)
      matches == FindKeys(t5, 1)
  IN  Sorted(Range(matches))

(***************************************************************************)
(* SlackUnfurlEventKey and SlackUnfurlEventStore (unfurleventstore.py)     *)
(***************************************************************************)
None == <<>>

Some(v) == <<v>>

\* Python truthiness of a str | None value
Truthy(opt) == opt # None /\ opt[1] # <<>>

HexDigits ==
  <<"0", "1", "2", "3", "4", "5", "6", "7", "8", "9",
    "a", "b", "c", "d", "e", "f">>

\* the code point of an ASCII character
Code(c) == IF c = "\t" THEN 9 ELSE IF c = "\n" THEN 10 ELSE Ord(c) + 29

\* str.encode("utf-8").hex()
RECURSIVE Hex(_)
Hex(s) ==
  IF s = <<>> THEN <<>>
  ELSE <<HexDigits[(Code(Head(s)) \div 16) + 1],
         HexDigits[(Code(Head(s)) % 16) + 1]>> \o Hex(Tail(s))

KeyPrefix ==
  <<"u", "n", "f", "u", "r", "l", ":", "s", "l", "a", "c", "k", ":">>

\* SlackUnfurlEventKey.__str__
SlackUnfurlEventKey(channel, token, thread_ts) ==
  LET key == KeyPrefix \o channel \o <<":">> \o Hex(token)
  IN  IF Truthy(thread_ts) THEN key \o <<":">> \o thread_ts[1] ELSE key

(***************************************************************************)
(* Bounds of the model                                                     *)
(***************************************************************************)
\* consumer instances sharing the Redis store
NumProcs == 2

\* deliveries of a message to a handler
MaxRuns == 2

\* advances of the clock
MaxTicks == 2

\* calls made on the store directly
MaxCalls == 3

\* the seconds by which the clock advances in one step
TickSteps == {10, 300}

(***************************************************************************)
(* Messages (SquarebotSlackMessageValue)                                   *)
(***************************************************************************)
ChannelC1 == <<"C", "1">>

TextOne == <<"D", "M", "-", "1">>

TextTwo == <<"D", "M", "-", "1", " ", "D", "M", "-", "2">>

\* slack_event["event"]: without a bot_id, with a null bot_id, from a bot
EventUser == [has_bot_id |-> FALSE, bot_id |-> None]

EventNullBot == [has_bot_id |-> TRUE, bot_id |-> None]

EventBot == [has_bot_id |-> TRUE, bot_id |-> Some(<<"B", "1">>)]

Msg(id, ts, text, ev) ==
  [id |-> id, channel |-> ChannelC1, thread_ts |-> None, ts |-> ts,
   text |-> text, event |-> ev]

Messages ==
  { Msg("m1", 0, TextOne, EventUser),
    Msg("m2", 10, TextTwo, EventNullBot),
    Msg("m3", 0, TextOne, EventBot),
    Msg("m4", 300, TextOne, EventUser) }

\* the domain unfurlers a SlackUnfurlService is constructed with: "jira" is
\* JiraUnfurler, which overrides process_slack; "base" is a domain unfurler
\* that inherits DomainUnfurler.process_slack
UnfurlerLists == { <<"jira">>, <<"base", "jira">> }

(***************************************************************************)
(* State                                                                   *)
(***************************************************************************)
VARIABLES
  now,        \* the clock, seconds
  ticks,      \* the number of advances of the clock so far
  store,      \* Redis: store key -> [time, expires]
  unfurlers,  \* SlackUnfurlService._domain_unfurlers
  delivered,  \* the number of messages delivered so far
  runs,       \* per consumer, its current or last process_message call
  inflight,   \* the chat.postMessage requests awaiting their response
  replies,    \* the replies Slack has posted, with their times
  history,    \* the calls of all runs and their outcomes
  calls,      \* the calls made on the store directly, with their answers
  logged,     \* the messages handle_slack_message has consumed and logged
  extracted,  \* per message text, the issue keys extract_issues returns
  gated,      \* the answers of _is_trigger_message_stale, with their times
  text,       \* the text extract_issues is called with
  layout,     \* how that text was put together: its keys and where they stand
  issue_keys, \* what each call of extract_issues on the text returned
  string,     \* the string _format_and_truncate_at_end is called with
  max_length, \* the maximum length it is called with
  formatted,  \* what it returned, if it was called
  data,       \* the Jira issue record from_json is called with
  issue       \* the JiraIssueSummary it returned, if it was called

\* the state of the calls of extract_issues
extraction == <<text, layout, issue_keys>>

\* the state of the call of _format_and_truncate_at_end
formatting == <<string, max_length, formatted>>

\* the state of the call of JiraIssueSummary.from_json
parsing == <<data, issue>>

vars ==
  <<now, ticks, store, unfurlers, delivered, runs, inflight, replies, history,
    calls, logged, extracted, gated, extraction, formatting, parsing>>

Procs == 1..NumProcs

\* SlackUnfurlEventStore.has_event: Redis does not return an expired key
has_event(channel, token, thread_ts) ==
  LET key == SlackUnfurlEventKey(channel, token, thread_ts)
  IN  key \in DOMAIN store /\ now < store[key].expires

\* an add_event that stores the record with the staleness window as its
\* lifetime
add_event_trigger_ttl(channel, token, thread_ts) ==
  LET key == SlackUnfurlEventKey(channel, token, thread_ts)
      rec == [time |-> now, expires |-> now + slack_trigger_message_ttl]
  IN  [k \in DOMAIN store \cup {key} |-> IF k = key THEN rec ELSE store[k]]

\* an add_event that sets the key only if it does not exist
add_event_nx(channel, token, thread_ts) ==
  LET key == SlackUnfurlEventKey(channel, token, thread_ts)
      rec == [time |-> now, expires |-> now + slack_debounce_time]
  IN  [k \in DOMAIN store \cup {key} |->
         IF k \in DOMAIN store THEN store[k] ELSE rec]

\* SlackUnfurlEventStore.add_event: the store after the write
add_event(channel, token, thread_ts) ==
  LET key == SlackUnfurlEventKey(channel, token, thread_ts)
      rec == [time |-> now, expires |-> now + slack_debounce_time]
  IN  [k \in DOMAIN store \cup {key} |-> IF k = key THEN rec ELSE store[k]]

\* a debounce read that never finds a record
NeverRecentlyUnfurled(message, token) == FALSE

\* DomainUnfurler._is_recently_unfurled
_is_recently_unfurled(message, token) ==
  has_event(message.channel, token, message.thread_ts)

\* a staleness test that also refuses an age equal to the window
StaleFromWindow(message) ==
  now - message.ts >= slack_trigger_message_ttl

\* DomainUnfurler._is_trigger_message_stale
_is_trigger_message_stale(message) ==
  now - message.ts > slack_trigger_message_ttl

\* the bot test of SlackUnfurlService.process_message
IsFromBot(message) ==
  message.event.has_bot_id /\ message.event.bot_id # None

\* the issue keys of each message text
Extracted == [t \in {m.text : m \in Messages} |-> extract_issues(t)]

\* DomainUnfurler.extract_tokens, as the Jira domain implements it:
\* extract_issues(message.text)
extract_tokens(message) == extracted[message.text]

\* whether a domain unfurler's process_slack has the staleness gate
HasStalenessGate(kind) == kind = "base"

\* an entry of a run's trace: a call about a token of the trigger message,
\* or the outcome of one
Event(op, message, u, token, res) ==
  [op |-> op, u |-> u, channel |-> message.channel,
   thread_ts |-> message.thread_ts, token |-> token, res |-> res]

\* The loops of process_message and process_slack: the position of the next
\* token whose debounce read is issued, from token i of unfurler u on; trace
\* collects the tokens skipped as stale on the way.
RECURSIVE Seek(_, _, _, _)
Seek(message, u, i, trace) ==
  IF u > Len(unfurlers)
  THEN [u |-> u, i |-> 0, pc |-> "done", trace |-> trace]
  ELSE IF i > Len(extract_tokens(message))
  THEN Seek(message, u + 1, 1, trace)
  ELSE IF HasStalenessGate(unfurlers[u]) /\ _is_trigger_message_stale(message)
  THEN Seek(message, u, i + 1,
            Append(trace, Event("stale", message, u,
                                extract_tokens(message)[i], "")))
  ELSE [u |-> u, i |-> i, pc |-> "gate", trace |-> trace]

Active(p) == runs[p].pc \in {"gate", "enrich", "post", "record"}

Token(p) == extract_tokens(runs[p].msg)[runs[p].i]

\* a reply that is posted to the channel and not to the thread
format_slack_message_unthreaded(channel, thread_ts) ==
  [channel |-> Some(channel), thread_ts |-> None]

\* JiraUnfurler.format_slack_message: where the reply goes
format_slack_message(channel, thread_ts) ==
  [channel |-> Some(channel), thread_ts |-> thread_ts]

NoReply == [channel |-> None, thread_ts |-> None]

\* the event op of the run of consumer p about its current token
Ev(op, p, res) == Event(op, runs[p].msg, runs[p].u, Token(p), res)

\* the chat.postMessage request of the run of consumer p
Request(p) ==
  [proc |-> p, run |-> runs[p].n, u |-> runs[p].u,
   channel |-> runs[p].msg.channel, thread_ts |-> runs[p].msg.thread_ts,
   token |-> Token(p)]

\* the reply of the run of consumer p as Slack posts it
Reply(p) ==
  [run |-> runs[p].n, proc |-> p, msg |-> runs[p].msg.id, u |-> runs[p].u,
   channel |-> runs[p].msg.channel, thread_ts |-> runs[p].msg.thread_ts,
   token |-> Token(p), start |-> runs[p].start, t |-> now]

\* the run of p after the events evs: on to the next token
Continue(p, evs) ==
  LET pos == Seek(runs[p].msg, runs[p].u, runs[p].i + 1, runs[p].trace \o evs)
  IN  [runs EXCEPT ![p] = [@ EXCEPT !.u = pos.u, !.i = pos.i, !.pc = pos.pc,
                                    !.trace = pos.trace, !.reply = NoReply]]

\* the run of p after the events evs: waiting at pc for the next answer
Await(p, pc, evs) ==
  [runs EXCEPT ![p] = [@ EXCEPT !.pc = pc, !.trace = @ \o evs]]

\* the run of p after the events evs: the exception leaves process_slack
\* and process_message
Raise(p, evs) == Await(p, "raised", evs)

\* the history after the step that takes the runs to next
Recorded(p, next) ==
  history \cup {[run |-> next[p].n, msg |-> next[p].msg.id,
                 ev |-> next[p].trace[j]] : j \in DOMAIN next[p].trace}

NoMessage ==
  [id |-> "none", channel |-> <<>>, thread_ts |-> None, ts |-> 0,
   text |-> <<>>, event |-> EventUser]

Idle ==
  [n |-> 0, msg |-> NoMessage, u |-> 0, i |-> 0, pc |-> "idle",
   trace |-> <<>>, reply |-> NoReply, start |-> 0]

\* the service as constructed, before any message
Start ==
  /\ now = 0
  /\ ticks = 0
  /\ store = <<>>
  /\ unfurlers \in UnfurlerLists
  /\ delivered = 0
  /\ runs = [p \in Procs |-> Idle]
  /\ inflight = {}
  /\ replies = {}
  /\ history = {}
  /\ calls = {}
  /\ logged = {}
  /\ extracted = Extracted
  /\ gated = {}

\* extract_issues has no call
NoExtraction == text = <<>> /\ layout = <<>> /\ issue_keys = <<>>

\* _format_and_truncate_at_end has no call
NoFormatting == string = <<>> /\ max_length = 0 /\ formatted = None

\* from_json has no call
NoParsing == data = None /\ issue = None

Init == Start /\ NoExtraction /\ NoFormatting /\ NoParsing

\* SlackUnfurlService.process_message is called by consumer p with the
\* message, up to the first debounce read.  A consumer awaits the call: it
\* makes its next one when this one has returned or raised; a message is
\* handed over no earlier than it was sent.
process_message(p, message) ==
  /\ delivered < MaxRuns
  /\ ~Active(p)
  /\ message.ts <= now
  /\ delivered' = delivered + 1
  /\ LET pos == IF IsFromBot(message)
                THEN [u |-> 0, i |-> 0, pc |-> "done", trace |-> <<>>]
                ELSE Seek(message, 1, 1, <<>>)
     IN  runs' = [runs EXCEPT ![p] =
                    [n |-> delivered + 1, msg |-> message, u |-> pos.u,
                     i |-> pos.i, pc |-> pos.pc, trace |-> pos.trace,
                     reply |-> NoReply, start |-> now]]
  /\ history' = Recorded(p, runs')
  /\ UNCHANGED <<calls, logged, extracted, gated, extraction, formatting,
                 parsing>>
  /\ UNCHANGED <<now, ticks, store, unfurlers, inflight, replies>>

\* a pipeline that starts the lookup before it has the answer of the
\* debounce read
GateReadFetchFirst(p) ==
  /\ runs[p].pc = "gate"
  /\ runs' = IF _is_recently_unfurled(runs[p].msg, Token(p))
             THEN Continue(p, <<Ev("fetch", p, ""), Ev("read", p, "found")>>)
             ELSE Await(p, "enrich",
                        <<Ev("fetch", p, ""), Ev("read", p, "absent")>>)
  /\ history' = Recorded(p, runs')
  /\ UNCHANGED <<calls, logged, extracted, gated, extraction, formatting,
                 parsing>>
  /\ UNCHANGED <<now, ticks, store, unfurlers, delivered, inflight, replies>>

\* a debounce gate with a sliding window: a suppressed mention writes the
\* record anew
GateReadRefreshes(p) ==
  /\ runs[p].pc = "gate"
  /\ runs' = IF _is_recently_unfurled(runs[p].msg, Token(p))
             THEN Continue(p, <<Ev("read", p, "found")>>)
             ELSE Await(p, "enrich",
                        <<Ev("read", p, "absent"), Ev("fetch", p, "")>>)
  /\ store' = IF _is_recently_unfurled(runs[p].msg, Token(p))
              THEN add_event(runs[p].msg.channel, Token(p),
                             runs[p].msg.thread_ts)
              ELSE store
  /\ history' = Recorded(p, runs')
  /\ UNCHANGED <<calls, logged, extracted, gated, extraction, formatting,
                 parsing>>
  /\ UNCHANGED <<now, ticks, unfurlers, delivered, inflight, replies>>

\* a debounce gate that is one atomic check-and-set: letting a token pass
\* writes its record
GateReadReserves(p) ==
  /\ runs[p].pc = "gate"
  /\ runs' = IF _is_recently_unfurled(runs[p].msg, Token(p))
             THEN Continue(p, <<Ev("read", p, "found")>>)
             ELSE Await(p, "enrich",
                        <<Ev("read", p, "absent"), Ev("fetch", p, "")>>)
  /\ store' = IF _is_recently_unfurled(runs[p].msg, Token(p))
              THEN store
              ELSE add_event(runs[p].msg.channel, Token(p),
                             runs[p].msg.thread_ts)
  /\ history' = Recorded(p, runs')
  /\ UNCHANGED <<calls, logged, extracted, gated, extraction, formatting,
                 parsing>>
  /\ UNCHANGED <<now, ticks, unfurlers, delivered, inflight, replies>>

\* process_slack: the debounce read of the current token returns.  A token
\* with a record is skipped; for any other the Jira lookup is issued.
GateRead(p) ==
  /\ runs[p].pc = "gate"
  /\ runs' = IF _is_recently_unfurled(runs[p].msg, Token(p))
             THEN Continue(p, <<Ev("read", p, "found")>>)
             ELSE Await(p, "enrich",
                        <<Ev("read", p, "absent"), Ev("fetch", p, "")>>)
  /\ history' = Recorded(p, runs')
  /\ UNCHANGED <<calls, logged, extracted, gated, extraction, formatting,
                 parsing>>
  /\ UNCHANGED <<now, ticks, store, unfurlers, delivered, inflight, replies>>

\* a debounce read that fails open: the error counts as no record
GateErrorFailOpen(p) ==
  /\ runs[p].pc = "gate"
  /\ runs' = Await(p, "enrich",
                   <<Ev("read", p, "error"), Ev("fetch", p, "")>>)
  /\ history' = Recorded(p, runs')
  /\ UNCHANGED <<calls, logged, extracted, gated, extraction, formatting,
                 parsing>>
  /\ UNCHANGED <<now, ticks, store, unfurlers, delivered, inflight, replies>>

\* process_slack: the debounce read fails (PydanticRedisStorage.get raises)
GateError(p) ==
  /\ runs[p].pc = "gate"
  /\ runs' = Raise(p, <<Ev("read", p, "error")>>)
  /\ history' = Recorded(p, runs')
  /\ UNCHANGED <<calls, logged, extracted, gated, extraction, formatting,
                 parsing>>
  /\ UNCHANGED <<now, ticks, store, unfurlers, delivered, inflight, replies>>

\* JiraIssueClient.get_issue returns the issue; the reply is formatted and
\* _send_unfurl posts it
EnrichOk(p) ==
  /\ runs[p].pc = "enrich"
  /\ runs' = [Await(p, "post", <<Ev("post", p, "")>>) EXCEPT
                ![p].reply = format_slack_message(runs[p].msg.channel,
                                                  runs[p].msg.thread_ts)]
  /\ inflight' = inflight \cup {Request(p)}
  /\ history' = Recorded(p, runs')
  /\ UNCHANGED <<calls, logged, extracted, gated, extraction, formatting,
                 parsing>>
  /\ UNCHANGED <<now, ticks, store, unfurlers, delivered, replies>>

\* a failed lookup that is tried again
EnrichFailRetries(p) ==
  /\ runs[p].pc = "enrich"
  /\ Len(runs[p].trace) < 8
  /\ runs' = Await(p, "enrich",
                   <<Ev("fetch_failed", p, ""), Ev("fetch", p, "")>>)
  /\ history' = Recorded(p, runs')
  /\ UNCHANGED <<calls, logged, extracted, gated, extraction, formatting,
                 parsing>>
  /\ UNCHANGED <<now, ticks, store, unfurlers, delivered, inflight, replies>>

\* a failed lookup that marks the token as unfurled all the same
EnrichFailRecords(p) ==
  /\ runs[p].pc = "enrich"
  /\ runs' = Raise(p, <<Ev("fetch_failed", p, "")>>)
  /\ store' = add_event(runs[p].msg.channel, Token(p), runs[p].msg.thread_ts)
  /\ history' = Recorded(p, runs')
  /\ UNCHANGED <<calls, logged, extracted, gated, extraction, formatting,
                 parsing>>
  /\ UNCHANGED <<now, ticks, unfurlers, delivered, inflight, replies>>

\* JiraIssueClient.get raises: a timeout, a transport error, or
\* raise_for_status on a 404 or another error status
EnrichFail(p) ==
  /\ runs[p].pc = "enrich"
  /\ runs' = Raise(p, <<Ev("fetch_failed", p, "")>>)
  /\ history' = Recorded(p, runs')
  /\ UNCHANGED <<calls, logged, extracted, gated, extraction, formatting,
                 parsing>>
  /\ UNCHANGED <<now, ticks, store, unfurlers, delivered, inflight, replies>>

\* a post that is not awaited: the request stays in flight while the run
\* goes on
RespondedLeak(p) == inflight

\* the requests in flight once the awaited post of run p has returned
Responded(p) == inflight \ {Request(p)}

\* a _send_unfurl that calls add_event after an ok response only
PostRespOkOnly(p, ok) ==
  /\ runs[p].pc = "post"
  /\ inflight' = Responded(p)
  /\ replies' = IF ok THEN replies \cup {Reply(p)} ELSE replies
  /\ LET ev == Ev("resp", p, IF ok THEN "ok" ELSE "not_ok")
     IN  runs' = IF ok /\ Truthy(runs[p].reply.channel)
                 THEN Await(p, "record", <<ev>>)
                 ELSE Continue(p, <<ev>>)
  /\ history' = Recorded(p, runs')
  /\ UNCHANGED <<calls, logged, extracted, gated, extraction, formatting,
                 parsing>>
  /\ UNCHANGED <<now, ticks, store, unfurlers, delivered>>

\* _send_unfurl: chat.postMessage answers with ok true or false; with a
\* channel on the reply, add_event is called
PostResp(p, ok) ==
  /\ runs[p].pc = "post"
  /\ inflight' = Responded(p)
  /\ replies' = IF ok THEN replies \cup {Reply(p)} ELSE replies
  /\ LET ev == Ev("resp", p, IF ok THEN "ok" ELSE "not_ok")
     IN  runs' = IF Truthy(runs[p].reply.channel)
                 THEN Await(p, "record", <<ev>>)
                 ELSE Continue(p, <<ev>>)
  /\ history' = Recorded(p, runs')
  /\ UNCHANGED <<calls, logged, extracted, gated, extraction, formatting,
                 parsing>>
  /\ UNCHANGED <<now, ticks, store, unfurlers, delivered>>

\* _send_unfurl: the post raises (timeout, transport error) or the body of
\* the response cannot be decoded; Slack may have posted the reply or not
PostRaise(p, posted) ==
  /\ runs[p].pc = "post"
  /\ inflight' = Responded(p)
  /\ replies' = IF posted THEN replies \cup {Reply(p)} ELSE replies
  /\ runs' = Raise(p, <<Ev("post_failed", p,
                           IF posted THEN "posted" ELSE "lost")>>)
  /\ history' = Recorded(p, runs')
  /\ UNCHANGED <<calls, logged, extracted, gated, extraction, formatting,
                 parsing>>
  /\ UNCHANGED <<now, ticks, store, unfurlers, delivered>>

\* _send_unfurl: add_event has written the record; on to the next token
RecordOk(p) ==
  /\ runs[p].pc = "record"
  /\ store' = add_event(runs[p].reply.channel[1], Token(p),
                        runs[p].reply.thread_ts)
  /\ runs' = Continue(p, <<[Ev("write", p, "") EXCEPT
                              !.channel = runs[p].reply.channel[1],
                              !.thread_ts = runs[p].reply.thread_ts]>>)
  /\ history' = Recorded(p, runs')
  /\ UNCHANGED <<calls, logged, extracted, gated, extraction, formatting,
                 parsing>>
  /\ UNCHANGED <<now, ticks, unfurlers, delivered, inflight, replies>>

\* _send_unfurl: add_event fails (PydanticRedisStorage.store raises)
RecordFail(p) ==
  /\ runs[p].pc = "record"
  /\ runs' = Raise(p, <<Ev("write_failed", p, "")>>)
  /\ history' = Recorded(p, runs')
  /\ UNCHANGED <<calls, logged, extracted, gated, extraction, formatting,
                 parsing>>
  /\ UNCHANGED <<now, ticks, store, unfurlers, delivered, inflight, replies>>

\* time passes; Redis drops the records whose lifetime is over
Tick(d) ==
  /\ ticks < MaxTicks
  /\ now' = now + d
  /\ ticks' = ticks + 1
  /\ store' = [k \in {x \in DOMAIN store : now + d < store[x].expires}
                 |-> store[k]]
  /\ UNCHANGED <<calls, logged, extracted, gated, extraction, formatting,
                 parsing>>
  /\ UNCHANGED <<unfurlers, delivered, runs, inflight, replies, history>>

\* one consumer: the messages are handled one after the other, while time
\* passes
Next ==
  \/ \E m \in Messages : process_message(1, m)
  \/ GateRead(1)
  \/ GateError(1)
  \/ EnrichOk(1)
  \/ EnrichFail(1)
  \/ \E ok \in BOOLEAN : PostResp(1, ok)
  \/ \E posted \in BOOLEAN : PostRaise(1, posted)
  \/ RecordOk(1)
  \/ RecordFail(1)
  \/ \E d \in TickSteps : Tick(d)

Spec == Init /\ [][Next]_vars

\* several consumers sharing the store: their runs interleave at the awaits
RaceNext ==
  \/ \E p \in Procs, m \in Messages : process_message(p, m)
  \/ \E p \in Procs : GateRead(p)
  \/ \E p \in Procs : GateError(p)
  \/ \E p \in Procs : EnrichOk(p)
  \/ \E p \in Procs : EnrichFail(p)
  \/ \E p \in Procs, ok \in BOOLEAN : PostResp(p, ok)
  \/ \E p \in Procs, posted \in BOOLEAN : PostRaise(p, posted)
  \/ \E p \in Procs : RecordOk(p)
  \/ \E p \in Procs : RecordFail(p)

SpecRace == Init /\ [][RaceNext]_vars

\* several consumers sharing the store while time passes: the runs
\* interleave at the awaits and Redis drops the records whose lifetime is
\* over
WindowNext ==
  \/ \E p \in Procs, m \in Messages : process_message(p, m)
  \/ \E p \in Procs : GateRead(p)
  \/ \E p \in Procs : GateError(p)
  \/ \E p \in Procs : EnrichOk(p)
  \/ \E p \in Procs : EnrichFail(p)
  \/ \E p \in Procs, ok \in BOOLEAN : PostResp(p, ok)
  \/ \E p \in Procs, posted \in BOOLEAN : PostRaise(p, posted)
  \/ \E p \in Procs : RecordOk(p)
  \/ \E p \in Procs : RecordFail(p)
  \/ \E d \in TickSteps : Tick(d)

SpecWindow == Init /\ [][WindowNext]_vars

\* trigger messages in the channel, in a thread of it, and one whose channel
\* is the empty string, the case the guard of add_event in _send_unfurl
\* tests for
ThreadTs == <<"1", "7">>

ThreadMessages ==
  { Msg("t1", 0, TextOne, EventUser),
    [Msg("t2", 0, TextTwo, EventUser) EXCEPT !.thread_ts = Some(ThreadTs)],
    [Msg("t3", 0, TextOne, EventUser) EXCEPT !.channel = <<>>] }

\* the consumers handling messages of a channel and of its threads
ThreadNext ==
  \/ \E p \in Procs, m \in ThreadMessages : process_message(p, m)
  \/ \E p \in Procs : GateRead(p)
  \/ \E p \in Procs : GateError(p)
  \/ \E p \in Procs : EnrichOk(p)
  \/ \E p \in Procs : EnrichFail(p)
  \/ \E p \in Procs, ok \in BOOLEAN : PostResp(p, ok)
  \/ \E p \in Procs, posted \in BOOLEAN : PostRaise(p, posted)
  \/ \E p \in Procs : RecordOk(p)
  \/ \E p \in Procs : RecordFail(p)

SpecThread == Init /\ [][ThreadNext]_vars

(***************************************************************************)
(* The Kafka consumer                                                      *)
(***************************************************************************)
\* what is known of a message when it is consumed: whether it is from a
\* person, not stale, and has a token with no live record in its channel and
\* thread
Consumed(message) ==
  [id |-> message.id,
   eligible |-> /\ ~IsFromBot(message)
                /\ ~_is_trigger_message_stale(message)
                /\ \E j \in DOMAIN extract_tokens(message) :
                     ~_is_recently_unfurled(message,
                                            extract_tokens(message)[j])]

\* handle_slack_message: the subscriber of the four message topics binds the
\* Kafka context to its logger, logs the text of the message and returns
handle_slack_message(message) ==
  /\ delivered < MaxRuns
  /\ message.ts <= now
  /\ delivered' = delivered + 1
  /\ logged' = logged \cup {Consumed(message)}
  /\ UNCHANGED <<now, ticks, store, unfurlers, runs, inflight, replies,
                 history, calls, extracted, gated,
                 extraction, formatting, parsing>>

\* the consumer at work while every call of the pipeline succeeds
LiveNext ==
  \/ \E m \in Messages : handle_slack_message(m)
  \/ \E m \in Messages : process_message(1, m)
  \/ GateRead(1)
  \/ EnrichOk(1)
  \/ PostResp(1, TRUE)
  \/ RecordOk(1)
  \/ \E d \in TickSteps : Tick(d)

\* a call that is awaited returns: the pipeline steps are weakly fair
SpecLive ==
  /\ Init
  /\ [][LiveNext]_vars
  /\ WF_vars(GateRead(1))
  /\ WF_vars(EnrichOk(1))
  /\ WF_vars(PostResp(1, TRUE))
  /\ WF_vars(RecordOk(1))

(***************************************************************************)
(* The store called directly                                               *)
(***************************************************************************)
\* the arguments of the calls: channels, thread ids and tokens with and
\* without the separator of the key and hexadecimal text
Channels == { <<"C">>, <<"C", ":", "4", "a">> }

Threads == { None, Some(<<>>), Some(<<"4", "a">>) }

Tokens == { <<"J">>, <<"4", "a">> }

\* the n-th call on the store, its key and its answer
Call(op, channel, token, thread_ts, res) ==
  [n |-> Cardinality(calls) + 1, op |-> op, channel |-> channel,
   token |-> token, thread_ts |-> thread_ts,
   key |-> SlackUnfurlEventKey(channel, token, thread_ts), t |-> now,
   res |-> res]

\* SlackUnfurlEventStore.add_event is called
StoreAdd(channel, token, thread_ts) ==
  /\ Cardinality(calls) < MaxCalls
  /\ store' = add_event(channel, token, thread_ts)
  /\ calls' = calls \cup {Call("add", channel, token, thread_ts, TRUE)}
  /\ UNCHANGED <<now, ticks, unfurlers, delivered, runs, inflight, replies,
                 history, logged, extracted, gated,
                 extraction, formatting, parsing>>

\* SlackUnfurlEventStore.has_event is called and answers
StoreHas(channel, token, thread_ts) ==
  /\ Cardinality(calls) < MaxCalls
  /\ calls' = calls \cup {Call("has", channel, token, thread_ts,
                               has_event(channel, token, thread_ts))}
  /\ UNCHANGED <<now, ticks, store, unfurlers, delivered, runs, inflight,
                 replies, history, logged, extracted, gated,
                 extraction, formatting, parsing>>

StoreNext ==
  \/ \E c \in Channels, t \in Tokens, th \in Threads : StoreAdd(c, t, th)
  \/ \E c \in Channels, t \in Tokens, th \in Threads : StoreHas(c, t, th)
  \/ \E d \in TickSteps : Tick(d)

SpecStore == Init /\ [][StoreNext]_vars

(***************************************************************************)
(* JiraUnfurler.extract_issues called on message texts                     *)
(***************************************************************************)
\* the calls of extract_issues made on one text
MaxExtract == 2

\* the length of the longest text
MaxText == 64

\* issue keys that stand in the texts
Keys ==
  { <<"D", "M", "-", "2">>, <<"D", "M", "-", "1", "0">>,
    <<"R", "F", "C", "-", "1">> }

\* str.lower for the letters of the keys
LowerChar(c) ==
  CASE c = "D" -> "d" [] c = "M" -> "m" [] c = "R" -> "r"
    [] c = "F" -> "f" [] c = "C" -> "c" [] OTHER -> c

LowerCase(s) == [k \in DOMAIN s |-> LowerChar(s[k])]

BrowsePrefix == jira_root_url \o <<"/", "b", "r", "o", "w", "s", "e", "/">>

OtherHost == <<":", "/", "/", "e", ".", "o", "r", "g", "/">>

\* the places a key stands at in a Slack message
Places ==
  {"bare", "fenced", "fenced_lines", "inline", "browse", "browse_path",
   "https", "http", "lower", "glued"}

\* a key as it is written at a place
WrittenAt(place, key) ==
  CASE place = "bare" -> key
    [] place = "fenced" -> Fence \o key \o Fence
    [] place = "fenced_lines" -> Fence \o <<"\n">> \o key \o <<"\n">> \o Fence
    [] place = "inline" -> <<BT>> \o key \o <<BT>>
    [] place = "browse" -> BrowsePrefix \o key
    [] place = "browse_path" -> BrowsePrefix \o <<"x", "/">> \o key
    [] place = "https" -> <<"h", "t", "t", "p", "s">> \o OtherHost \o key
    [] place = "http" -> <<"h", "t", "t", "p">> \o OtherHost \o key
    [] place = "lower" -> LowerCase(key)
    [] place = "glued" -> <<"x">> \o key

Parts == [place : Places, key : Keys]

\* the parts of a message, each written at its place, sep between them
RECURSIVE Join(_, _)
Join(parts, sep) ==
  IF parts = <<>> THEN <<>>
  ELSE IF Len(parts) = 1 THEN WrittenAt(parts[1].place, parts[1].key)
  ELSE WrittenAt(parts[1].place, parts[1].key) \o sep \o Join(Tail(parts), sep)

\* the texts of test_key_extraction (jiraunfurler_test.py)
TestPlain ==
  <<"D", "M", "-", "1", "2", "3", "4", " ", "D", "M", "-", "5", "6", "7",
    "8", "\n", "R", "F", "C", "-", "1">>

TestCode ==
  <<"D", "M", "-", "1", "2", "3", "4", "\n">> \o Fence
    \o <<"D", "M", "-", "5", "6", "7", "8">> \o Fence \o <<"\n", "\n", BT,
         "R", "F", "C", "-", "1", BT>>

TestTexts == {TestPlain, TestCode}

\* a message text is given: two keys at their places, the first one
\* possibly once more as a bare word at the end, or a text of the tests
ExtractInit ==
  /\ Start /\ unfurlers = <<"jira">>
  /\ NoFormatting /\ NoParsing
  /\ issue_keys = <<>>
  /\ \/ \E a \in Parts, b \in Parts, again \in BOOLEAN,
          sep \in { <<" ">>, <<"\n">> } :
          /\ layout = IF again
                      THEN <<a, b, [place |-> "bare", key |-> a.key]>>
                      ELSE <<a, b>>
          /\ text = Join(layout, sep)
     \/ /\ layout = <<>>
        /\ text \in TestTexts
  /\ Len(text) <= MaxText

\* JiraUnfurler.extract_issues is called on the text and returns
ExtractIssues ==
  /\ Len(issue_keys) < MaxExtract
  /\ issue_keys' = Append(issue_keys, extract_issues(text))
  /\ UNCHANGED <<text, layout, formatting, parsing>>
  /\ UNCHANGED <<now, ticks, store, unfurlers, delivered, runs, inflight,
                 replies, history, calls, logged, extracted,
                 gated>>

ExtractNext == ExtractIssues

SpecExtract == ExtractInit /\ [][ExtractNext]_vars

(***************************************************************************)
(* _format_and_truncate_at_end (storage/slackmessage.py)                   *)
(***************************************************************************)
\* the length of the longest string given
MaxInput == 5

\* the largest maximum length given
MaxLength == 9

\* the characters of the strings given
FormatChars == {"a", " ", "\n", "&", "<", ">"}

Strings == UNION {[1..n -> FormatChars] : n \in 0..MaxInput}

Max(S) == CHOOSE x \in S : \A y \in S : x >= y

\* str.lstrip() and str.rstrip()
RECURSIVE lstrip(_)
lstrip(s) == IF s # <<>> /\ IsSpace(Head(s)) THEN lstrip(Tail(s)) ELSE s

RECURSIVE rstrip(_)
rstrip(s) ==
  IF s # <<>> /\ IsSpace(s[Len(s)])
  THEN rstrip(SubSeq(s, 1, Len(s) - 1)) ELSE s

\* str.strip()
strip(s) == rstrip(lstrip(s))

\* str.replace(old, new) for a one-character old
RECURSIVE replace(_, _, _)
replace(s, old, new) ==
  IF s = <<>> THEN <<>>
  ELSE (IF Head(s) = old THEN new ELSE <<Head(s)>>)
         \o replace(Tail(s), old, new)

Amp == <<"&", "a", "m", "p", ";">>

Lt == <<"&", "l", "t", ";">>

Gt == <<"&", "g", "t", ";">>

\* a formatting that escapes "&" and leaves the angle brackets
FormatAmpOnly(s) == replace(strip(s), "&", Amp)

\* the same replacements with "&" replaced last
FormatAmpLast(s) ==
  replace(replace(replace(strip(s), "<", Lt), ">", Gt), "&", Amp)

\* string.strip().replace("&", "&amp;").replace("<", "&lt;")
\*       .replace(">", "&gt;")
Format(s) ==
  replace(replace(replace(strip(s), "&", Amp), "<", Lt), ">", Gt)

\* the end of a Python slice or search range of a string of length n: a
\* negative end counts from the end of the string
SliceEnd(end, n) ==
  IF end < 0 THEN (IF n + end < 0 THEN 0 ELSE n + end)
  ELSE (IF end > n THEN n ELSE end)

\* s[:end]
Slice(s, end) == SubSeq(s, 1, SliceEnd(end, Len(s)))

\* s.rfind(c, 0, end): the highest index (from 0) below end, or -1
rfind(s, c, end) ==
  LET C == {i \in 0..(SliceEnd(end, Len(s)) - 1) : s[i + 1] = c}
  IN  IF C = {} THEN -1 ELSE Max(C)

_format_and_truncate_at_end(s0, max) ==
  LET s == Format(s0)
      truncated == <<" ", "[", ".", ".", ".", "]">>
      last_newline == rfind(s, "\n", max - Len(truncated))
  IN  IF Len(s) <= max THEN s
      ELSE IF last_newline = -1
      THEN Slice(s, max - Len(truncated)) \o truncated
      ELSE Slice(s, last_newline) \o truncated

\* a string and a maximum length are given
FormatInit ==
  /\ Start /\ unfurlers = <<"jira">>
  /\ NoExtraction /\ NoParsing
  /\ string \in Strings
  /\ max_length \in 0..MaxLength
  /\ formatted = None

\* _format_and_truncate_at_end is called and returns
FormatAndTruncate ==
  /\ formatted = None
  /\ formatted' = Some(_format_and_truncate_at_end(string, max_length))
  /\ UNCHANGED <<string, max_length, extraction, parsing>>
  /\ UNCHANGED <<now, ticks, store, unfurlers, delivered, runs, inflight,
                 replies, history, calls, logged, extracted,
                 gated>>

FormatNext == FormatAndTruncate

SpecFormat == FormatInit /\ [][FormatNext]_vars

(***************************************************************************)
(* JiraIssueSummary.from_json (storage/jiraissues.py)                      *)
(***************************************************************************)
\* ISO 8601 timestamps of Jira issues
Timestamps == {"2024-01-29T23:08:48+00:00", "2024-01-30T23:11:11+00:00"}

\* datetime.fromisoformat for these timestamps
fromisoformat(iso) ==
  CASE iso = "2024-01-29T23:08:48+00:00" ->
         [year |-> 2024, month |-> 1, day |-> 29, hour |-> 23, minute |-> 8,
          second |-> 48, utcoffset |-> 0]
    [] iso = "2024-01-30T23:11:11+00:00" ->
         [year |-> 2024, month |-> 1, day |-> 30, hour |-> 23, minute |-> 11,
          second |-> 11, utcoffset |-> 0]

\* the users of Jira issues
Users == {[displayName |-> "Jonathan Sick"], [displayName |-> "John Parejko"]}

\* the "fields" object of an issue of the Jira REST API: resolutiondate is
\* null or a timestamp, assignee is null or a user
Fields ==
  [created : Timestamps,
   resolutiondate : {None} \cup {Some(t) : t \in Timestamps},
   assignee : {None} \cup {Some(u) : u \in Users},
   summary : {"Technote: Wrap code samples that don't have captions"},
   status : {[name |-> "In Progress"], [name |-> "Done"]},
   description : {None, Some("This backend for Squarebot will replace")},
   reporter : Users]

\* the issue records from_json is given
Records == [key : Keys, fields : Fields]

\* a summary whose date_resolved is always read from "created"
from_json_created(d) ==
  [key |-> d.key,
   summary |-> d.fields.summary,
   status_label |-> d.fields.status.name,
   date_created |-> fromisoformat(d.fields.created),
   description |-> d.fields.description,
   reporter_name |-> d.fields.reporter.displayName,
   date_resolved |-> Some(fromisoformat(d.fields.created)),
   assignee_name |-> IF d.fields.assignee # None
                     THEN Some(d.fields.assignee[1].displayName) ELSE None,
   homepage |-> jira_root_url \o <<"/", "b", "r", "o", "w", "s", "e", "/">>
                  \o d.key]

from_json(d) ==
  LET date_created == fromisoformat(d.fields.created)
      date_resolved == IF /\ d.fields.resolutiondate # None
                          /\ d.fields.resolutiondate[1] # ""
                       THEN Some(fromisoformat(d.fields.resolutiondate[1]))
                       ELSE None
      assignee_name == IF d.fields.assignee # None
                       THEN Some(d.fields.assignee[1].displayName)
                       ELSE None
      homepage == jira_root_url \o <<"/", "b", "r", "o", "w", "s", "e", "/">>
                    \o d.key
  IN  [key |-> d.key,
       summary |-> d.fields.summary,
       status_label |-> d.fields.status.name,
       date_created |-> date_created,
       description |-> d.fields.description,
       reporter_name |-> d.fields.reporter.displayName,
       date_resolved |-> date_resolved,
       assignee_name |-> assignee_name,
       homepage |-> homepage]

\* an issue record is given
ParseInit ==
  /\ Start /\ unfurlers = <<"jira">>
  /\ NoExtraction /\ NoFormatting
  /\ data \in {Some(r) : r \in Records}
  /\ issue = None

\* JiraIssueSummary.from_json is called on the record and returns
FromJson ==
  /\ issue = None
  /\ issue' = Some(from_json(data[1]))
  /\ UNCHANGED <<data, extraction, formatting>>
  /\ UNCHANGED <<now, ticks, store, unfurlers, delivered, runs, inflight,
                 replies, history, calls, logged, extracted,
                 gated>>

ParseNext == FromJson

SpecParse == ParseInit /\ [][ParseNext]_vars

(***************************************************************************)
(* DomainUnfurler._is_trigger_message_stale asked about messages           *)
(***************************************************************************)
\* the steps of the clock around the staleness window
StaleSteps == {30, 31}

\* trigger messages sent at time 0, at time 1, and after every time reached
StaleMessages ==
  { Msg("s1", 0, TextOne, EventUser),
    Msg("s2", 1, TextOne, EventUser),
    Msg("s3", 100, TextOne, EventUser) }

\* the answer of _is_trigger_message_stale about a message, as it was given
Gated(message) ==
  [id |-> message.id, ts |-> message.ts, t |-> now,
   stale |-> _is_trigger_message_stale(message)]

\* _is_trigger_message_stale is called with the message and answers
IsTriggerMessageStale(message) ==
  /\ gated' = gated \cup {Gated(message)}
  /\ UNCHANGED <<now, ticks, store, unfurlers, delivered, runs, inflight,
                 replies, history, calls, logged, extracted>>
  /\ UNCHANGED <<extraction, formatting, parsing>>

StaleNext ==
  \/ \E m \in StaleMessages : IsTriggerMessageStale(m)
  \/ \E d \in StaleSteps : Tick(d)

SpecStale == Init /\ [][StaleNext]_vars

(***************************************************************************)
(* Properties                                                              *)
(***************************************************************************)
Scope(x) == <<x.channel, x.thread_ts, x.token>>

Ended(p) == runs[p].pc \in {"done", "raised"}

Age(p) == runs[p].start - runs[p].msg.ts

\* the store key of the scope of a trace entry
EventKey(ev) == SlackUnfurlEventKey(ev.channel, ev.token, ev.thread_ts)

\* the entries of the history about the same token of the same unfurler in
\* the same run as h
SameUnit(h) ==
  {g \in history : g.run = h.run /\ g.ev.u = h.ev.u /\ g.ev.token = h.ev.token}

\* the run h belongs to is waiting for the write of the record of h's token
WritePending(h) ==
  \E p \in Procs :
    /\ runs[p].n = h.run
    /\ runs[p].pc = "record"
    /\ runs[p].u = h.ev.u
    /\ Token(p) = h.ev.token

\* unfurler u of the list has taken up every token of the message of the run
\* of p
Invoked(p, u) ==
  \A k \in DOMAIN extract_tokens(runs[p].msg) :
    \E j \in DOMAIN runs[p].trace :
      /\ runs[p].trace[j].u = u
      /\ runs[p].trace[j].token = extract_tokens(runs[p].msg)[k]
      /\ runs[p].trace[j].op \in {"read", "stale"}

\* unfurler u of the list has been given the message of the run of p
Given(p, u) == \E j \in DOMAIN runs[p].trace : runs[p].trace[j].u = u

\* C1: two dispatches of the same message, one after the other and both
\* within the debounce window of the first, never send two replies for one
\* (channel, thread, token).
C1_Idempotence ==
  \A x, y \in replies :
    (/\ x.msg = y.msg
     /\ Scope(x) = Scope(y)
     /\ x.run < y.run
     /\ y.t - x.start < slack_debounce_time) => FALSE

C4_CheckThenWrite ==
  [][\A p \in Procs :
       /\ (runs[p].pc = "gate" /\ runs'[p].pc = "enrich") => store' = store
       /\ (store' # store /\ runs'[p] # runs[p]) => runs[p].pc = "record"]_vars

\* both deliveries of one message have passed the gate and have replied, and
\* neither record is written yet
C4_BothReplied ==
  \E p, q \in Procs :
    /\ p # q
    /\ runs[p].pc = "record" /\ runs[q].pc = "record"
    /\ runs[p].msg = runs[q].msg
    /\ runs[p].u = runs[q].u /\ runs[p].i = runs[q].i
    /\ EventKey(Ev("write", p, "")) \notin DOMAIN store
    /\ \E x, y \in replies :
         /\ x.run = runs[p].n /\ y.run = runs[q].n
         /\ Scope(x) = Scope(y)

\* C5: no failure inside one unfurler leaves process_message, and a run that
\* has ended has given the message to every unfurler of the list.
C5_DomainsIsolated ==
  \A p \in Procs :
    /\ runs[p].pc # "raised"
    /\ (Ended(p) /\ ~IsFromBot(runs[p].msg)) =>
         \A u \in DOMAIN unfurlers : Given(p, u)

\* C6: in a run that has ended, a failed Jira lookup for one token has not
\* kept the unfurler from taking up every other token of the message.
C6_SiblingTokensProcessed ==
  \A p \in Procs :
    \A j \in DOMAIN runs[p].trace :
      (Ended(p) /\ runs[p].trace[j].op = "fetch_failed") =>
        Invoked(p, runs[p].trace[j].u)

\* C7: the step in which a Jira lookup fails sends nothing and writes
\* nothing, and every record of the store is of a scope a reply was posted
\* for; a run that finds no record of the scope goes on to the lookup.
C7_FailureStep ==
  \A p \in Procs :
    /\ (runs[p].pc = "enrich" /\ runs'[p].pc = "raised") =>
         store' = store /\ replies' = replies /\ inflight' = inflight
    /\ (/\ runs[p].pc = "gate"
        /\ ~_is_recently_unfurled(runs[p].msg, Token(p))
        /\ runs'[p].pc \notin {"gate", "raised"}) =>
         /\ runs'[p].pc = "enrich"
         /\ runs'[p].trace[Len(runs'[p].trace)].op = "fetch"

C7_RecordsFollowPosts ==
  \A k \in DOMAIN store :
    \E h \in history : h.ev.op = "post" /\ EventKey(h.ev) = k

C7_FailedLookupRetryable ==
  []C7_RecordsFollowPosts /\ [][C7_FailureStep]_vars

\* the lookup of a token failed in one run, and a later run on the same
\* scope has looked the token up and posted the reply
C7_Retried ==
  \E f, g \in history :
    /\ f.ev.op = "fetch_failed"
    /\ g.ev.op = "post"
    /\ g.run > f.run
    /\ Scope(f.ev) = Scope(g.ev)
    /\ \A h \in history :
         (h.ev.op = "post" /\ Scope(h.ev) = Scope(f.ev)) => h.run > f.run

\* C8: an answer of chat.postMessage, ok or not, is followed by the write of
\* the record, which lives for the debounce time; while it lives no run
\* passes the gate for its scope.
C8_ResponseRecorded ==
  \A h \in history :
    h.ev.op = "resp" =>
      \/ WritePending(h)
      \/ \E g \in SameUnit(h) : g.ev.op \in {"write", "write_failed"}

C8_RecordStep ==
  \A p \in Procs :
    /\ (/\ runs[p].pc = "post"
        /\ runs'[p].pc # "post"
        /\ runs'[p].trace[Len(runs'[p].trace)].op = "resp") =>
         runs'[p].pc = "record"
    /\ (runs[p].pc = "record" /\ runs'[p].pc \notin {"record", "raised"}) =>
         LET k == SlackUnfurlEventKey(runs[p].msg.channel, Token(p),
                                      runs[p].msg.thread_ts)
         IN  /\ k \in DOMAIN store'
             /\ store'[k].expires = now + slack_debounce_time
    /\ (runs[p].pc = "gate" /\ _is_recently_unfurled(runs[p].msg, Token(p)))
         => runs'[p].pc # "enrich"

C8_NotOkStillRecorded ==
  []C8_ResponseRecorded /\ [][C8_RecordStep]_vars

\* a post was answered with ok false, its record was written, and a later
\* run found the record and skipped the token; no reply was ever sent
C8_Suppressed ==
  \E h, g, f \in history :
    /\ h.ev.op = "resp" /\ h.ev.res = "not_ok"
    /\ g \in SameUnit(h) /\ g.ev.op = "write"
    /\ f.ev.op = "read" /\ f.ev.res = "found"
    /\ f.run > h.run
    /\ Scope(f.ev) = Scope(h.ev)
    /\ replies = {}

\* C9: a post that raises, or whose answer cannot be decoded, is followed by
\* the write of the record, and the run does not end with that failure.
C9_PostFailureRecorded ==
  /\ \A h \in history :
       h.ev.op = "post_failed" =>
         \/ WritePending(h)
         \/ \E g \in SameUnit(h) : g.ev.op \in {"write", "write_failed"}
  /\ \A p \in Procs :
       runs[p].pc = "raised" =>
         runs[p].trace[Len(runs[p].trace)].op # "post_failed"

\* C10: a run on a message with a non-null bot_id ends at once with no call
\* made; a run that has ended on a message with no bot_id or a null bot_id
\* has given the message to every unfurler of the list.
C10_BotNoOp ==
  \A p \in Procs :
    /\ (runs[p].pc # "idle" /\ runs[p].msg.event.has_bot_id
        /\ runs[p].msg.event.bot_id # None) =>
         /\ runs[p].pc = "done"
         /\ runs[p].trace = <<>>
         /\ \A h \in history : h.run # runs[p].n
         /\ \A x \in replies \cup inflight : x.run # runs[p].n
    /\ (Ended(p) /\ (~runs[p].msg.event.has_bot_id
                     \/ runs[p].msg.event.bot_id = None)) =>
         \A u \in DOMAIN unfurlers : Given(p, u)

\* the run x belongs to has written the record of the token of x
Written(x) ==
  \E g \in history :
    /\ g.run = x.run /\ g.ev.u = x.u /\ g.ev.token = x.token
    /\ g.ev.op = "write"

\* C11: after a run has replied to a token and written its record, a later
\* run on another message with the same token in the same channel and thread
\* makes no lookup, no post and no write for it while less than the debounce
\* time has passed since the reply: one reply and one write in all.
C11_SecondMentionSuppressed ==
  \A p \in Procs :
    \A x \in replies :
      (/\ x.run < runs[p].n
       /\ x.msg # runs[p].msg.id
       /\ Written(x)
       /\ now - x.t < slack_debounce_time) =>
        \A j \in DOMAIN runs[p].trace :
          Scope(runs[p].trace[j]) = Scope(x) =>
            runs[p].trace[j].op \notin {"fetch", "post", "write"}

\* m1 was answered and recorded at time 0; m2, sent and handled 10 s later,
\* is done, its mention of the same token skipped, with one reply and one
\* write for the scope in all
C11_TenSecondsApart ==
  \E p \in Procs :
    \E x \in replies :
      /\ x.msg = "m1" /\ Written(x)
      /\ runs[p].msg.id = "m2" /\ runs[p].pc = "done"
      /\ x.run < runs[p].n
      /\ runs[p].start - x.start = 10
      /\ Age(p) <= slack_trigger_message_ttl
      /\ \E j \in DOMAIN runs[p].trace :
           /\ Scope(runs[p].trace[j]) = Scope(x)
           /\ runs[p].trace[j].op = "read"
           /\ runs[p].trace[j].res = "found"
      /\ \A y \in replies : Scope(y) = Scope(x) => y = x
      /\ \A g, h \in history :
           (/\ g.ev.op = "write" /\ h.ev.op = "write"
            /\ Scope(g.ev) = Scope(x) /\ Scope(h.ev) = Scope(x)) => g = h

\* C12: the step in which the debounce gate skips a token changes neither
\* the store nor the replies nor the requests in flight, and in the trace of
\* a run a skipped token has no lookup, post or write.
C12_SkipStep ==
  \A p \in Procs :
    (/\ runs[p].pc = "gate"
     /\ _is_recently_unfurled(runs[p].msg, Token(p))
     /\ runs'[p] # runs[p]) =>
      /\ store' = store
      /\ replies' = replies
      /\ inflight' = inflight
      /\ runs'[p].pc \in {"gate", "done", "raised"}

C12_SkippedUntouched ==
  \A p \in Procs :
    \A j, k \in DOMAIN runs[p].trace :
      (/\ runs[p].trace[j].op = "read" /\ runs[p].trace[j].res = "found"
       /\ runs[p].trace[k].u = runs[p].trace[j].u
       /\ runs[p].trace[k].token = runs[p].trace[j].token) =>
        runs[p].trace[k].op \notin {"fetch", "post", "write"}

C12_SkipLeavesRecord ==
  []C12_SkippedUntouched /\ [][C12_SkipStep]_vars

\* a run that started after the record was written has skipped the token,
\* and the record still has the time and the expiry of its write
C12_WindowNotExtended ==
  \E p \in Procs :
    \E j \in DOMAIN runs[p].trace :
      /\ runs[p].trace[j].op = "read" /\ runs[p].trace[j].res = "found"
      /\ EventKey(runs[p].trace[j]) \in DOMAIN store
      /\ store[EventKey(runs[p].trace[j])].time < runs[p].start
      /\ store[EventKey(runs[p].trace[j])].expires =
           store[EventKey(runs[p].trace[j])].time + slack_debounce_time

\* C13: two calls on the store with different (channel, thread, token) have
\* different keys.
C13_KeyInjective ==
  \A a, b \in calls : Scope(a) # Scope(b) => a.key # b.key

\* C14: has_event for a scope with a thread id is not made true by a record
\* of the same channel and token without a thread id, nor the other way
\* round: without an add_event of its own scope it answers false.
C14_AbsentThreadDistinct ==
  \A a, h \in calls :
    (/\ a.op = "add" /\ h.op = "has" /\ a.n < h.n
     /\ a.channel = h.channel /\ a.token = h.token
     /\ (a.thread_ts = None) # (h.thread_ts = None)
     /\ \A b \in calls : (b.op = "add" /\ b.n < h.n) => Scope(b) # Scope(h))
      => ~h.res

\* C15: a token is skipped by the debounce gate of an unfurler only if that
\* same unfurler has written a record for the scope: the record of another
\* domain unfurler of the list does not suppress it.
C15_DomainInIdentity ==
  \A p \in Procs :
    \A j \in DOMAIN runs[p].trace :
      (runs[p].trace[j].op = "read" /\ runs[p].trace[j].res = "found") =>
        \E h \in history :
          /\ h.ev.op = "write"
          /\ Scope(h.ev) = Scope(runs[p].trace[j])
          /\ unfurlers[h.ev.u] = unfurlers[runs[p].trace[j].u]

\* the store key of the token the run of p is at
RunKey(p) ==
  SlackUnfurlEventKey(runs[p].msg.channel, Token(p), runs[p].msg.thread_ts)

\* the entry the step has added to the trace of the run of p
Added(p) == runs'[p].trace[Len(runs[p].trace) + 1]

\* C16: a record is in the store from its write until slack_debounce_time
\* (300 s) later and not after; the write that follows the answer of the post
\* stamps it with the time of the write; the gate finds a record exactly when
\* one was written for the scope less than that time ago.
C16_Live ==
  \A k \in DOMAIN store :
    /\ store[k].expires = store[k].time + slack_debounce_time
    /\ store[k].time <= now
    /\ now < store[k].time + slack_debounce_time

C16_Step ==
  \A p \in Procs :
    /\ (runs[p].pc = "record" /\ runs'[p].pc \notin {"record", "raised"}) =>
         /\ RunKey(p) \in DOMAIN store'
         /\ store'[RunKey(p)].time = now
         /\ store'[RunKey(p)].expires = now + slack_debounce_time
    /\ (/\ runs[p].pc = "gate"
        /\ Len(runs'[p].trace) > Len(runs[p].trace)
        /\ Added(p).res = "found") =>
         /\ RunKey(p) \in DOMAIN store
         /\ now - store[RunKey(p)].time < slack_debounce_time
    /\ (/\ runs[p].pc = "gate"
        /\ Len(runs'[p].trace) > Len(runs[p].trace)
        /\ Added(p).res = "absent") =>
         \/ RunKey(p) \notin DOMAIN store
         \/ now - store[RunKey(p)].time >= slack_debounce_time

C16_RecordLifetime ==
  []C16_Live /\ [][C16_Step]_vars

\* a token answered and recorded is answered again by a run on a fresh
\* message handled a full debounce time after the first reply
C16_UnfurledAgain ==
  \E x, y \in replies :
    /\ Scope(x) = Scope(y)
    /\ x.run < y.run
    /\ Written(x)
    /\ y.start - x.t >= slack_debounce_time
    /\ \E m \in Messages :
         m.id = y.msg /\ y.start - m.ts <= slack_trigger_message_ttl

\* the add_event calls made so far for store key k
Adds(k) == {a \in calls : a.op = "add" /\ a.key = k}

\* the call the step makes on the store
NewCall == CHOOSE c \in calls' : c \notin calls

\* C17: the store holds one record per key, that of the last add_event for
\* the key: add_event on a live record replaces it and restarts its expiry,
\* touches no other record, and repeated at once changes nothing more.
C17_LastWrite ==
  \A k \in DOMAIN store :
    /\ Adds(k) # {}
    /\ \A a \in Adds(k) : a.t <= store[k].time
    /\ \E a \in Adds(k) : a.t = store[k].time
    /\ store[k].expires = store[k].time + slack_debounce_time

C17_AddStep ==
  (calls' # calls /\ NewCall.op = "add") =>
    /\ DOMAIN store' = DOMAIN store \cup {NewCall.key}
    /\ store'[NewCall.key] =
         [time |-> now, expires |-> now + slack_debounce_time]
    /\ \A k \in DOMAIN store : k # NewCall.key => store'[k] = store[k]
    /\ (\E a \in Adds(NewCall.key) : a.n = Cardinality(calls) /\ a.t = now)
         => store' = store

C17_RefreshOnWrite ==
  []C17_LastWrite /\ [][C17_AddStep]_vars

\* add_event was called for a scope, called again 10 s later while the
\* record was live, and once more at once: the record is that of the later
\* time
C17_Refreshed ==
  \E a, b, c \in calls :
    /\ a.op = "add" /\ b.op = "add" /\ c.op = "add"
    /\ Scope(a) = Scope(b) /\ Scope(b) = Scope(c)
    /\ a.n < b.n /\ c.n = b.n + 1
    /\ a.t < b.t /\ b.t < a.t + slack_debounce_time /\ c.t = b.t
    /\ a.key \in DOMAIN store
    /\ store[a.key].time = b.t
    /\ Cardinality(DOMAIN store) = 1

\* C18: a failed debounce read ends the run with the error: it is the last
\* entry of the trace of a raised run, no lookup or post for the token follows
\* it, and the failing step sends and writes nothing.
C18_ErrorEndsRun ==
  \A p \in Procs :
    \A j \in DOMAIN runs[p].trace :
      (runs[p].trace[j].op = "read" /\ runs[p].trace[j].res = "error") =>
        /\ j = Len(runs[p].trace)
        /\ runs[p].pc = "raised"
        /\ \A k \in DOMAIN runs[p].trace :
             (/\ runs[p].trace[k].u = runs[p].trace[j].u
              /\ runs[p].trace[k].token = runs[p].trace[j].token) =>
               runs[p].trace[k].op \notin {"fetch", "post", "resp", "write"}
        /\ \A x \in replies \cup inflight :
             ~(/\ x.run = runs[p].n /\ x.u = runs[p].trace[j].u
               /\ x.token = runs[p].trace[j].token)

C18_ErrorStep ==
  \A p \in Procs :
    (/\ runs[p].pc = "gate"
     /\ Len(runs'[p].trace) > Len(runs[p].trace)
     /\ Added(p).res = "error") =>
      /\ runs'[p].pc = "raised"
      /\ store' = store /\ replies' = replies /\ inflight' = inflight

C18_ReadFailureNotOpen ==
  []C18_ErrorEndsRun /\ [][C18_ErrorStep]_vars

\* the debounce read of a token failed on an empty store: the run has raised
\* and nothing was sent
C18_ReadFailed ==
  \E p \in Procs :
    /\ runs[p].pc = "raised"
    /\ runs[p].trace[Len(runs[p].trace)].op = "read"
    /\ runs[p].trace[Len(runs[p].trace)].res = "error"
    /\ store = <<>>
    /\ replies = {}

\* the entries of the trace of the run of p where unfurler u makes call op
\* about token
CallsOf(p, u, token, op) ==
  {j \in DOMAIN runs[p].trace :
     /\ runs[p].trace[j].u = u
     /\ runs[p].trace[j].token = token
     /\ runs[p].trace[j].op = op}

\* C19: in a run, for each token of each unfurler, there is at most one
\* debounce read, one lookup, one post and one write, whatever has failed.
C19_NoRetry ==
  \A p \in Procs :
    \A j \in DOMAIN runs[p].trace :
      \A op \in {"read", "fetch", "post", "write"} :
        Cardinality(CallsOf(p, runs[p].trace[j].u, runs[p].trace[j].token,
                            op)) <= 1

\* a run has ended with a call that failed, and the failed call was made
\* once
C19_FailedOnce ==
  \E p \in Procs :
    LET last == runs[p].trace[Len(runs[p].trace)]
    IN  /\ runs[p].pc = "raised"
        /\ last.op \in {"fetch_failed", "post_failed", "write_failed"}
        /\ Cardinality(CallsOf(p, last.u, last.token, "read")) = 1
        /\ Cardinality(CallsOf(p, last.u, last.token, "fetch")) = 1
        /\ last.op = "fetch_failed" =>
             CallsOf(p, last.u, last.token, "post") = {}

\* entry j of the trace of the run of p follows an entry of the same
\* unfurler and token with call op and answer in ress
Follows(p, j, op, ress) ==
  \E i \in 1..(j - 1) :
    /\ runs[p].trace[i].u = runs[p].trace[j].u
    /\ runs[p].trace[i].token = runs[p].trace[j].token
    /\ runs[p].trace[i].op = op
    /\ runs[p].trace[i].res \in ress

\* C20: in the trace of a run a lookup follows the debounce read of its token
\* that found no record, a post follows the lookup, a write follows the post
\* and its answer, and a token skipped as stale has no other entry; an
\* unfurler with the staleness gate reads the store for a message only while
\* the message is not stale.
C20_Order ==
  \A p \in Procs :
    \A j \in DOMAIN runs[p].trace :
      LET e == runs[p].trace[j]
      IN  /\ e.op = "fetch" => Follows(p, j, "read", {"absent"})
          /\ e.op = "post" => Follows(p, j, "fetch", {""})
          /\ e.op = "resp" => Follows(p, j, "post", {""})
          /\ e.op = "write" =>
               Follows(p, j, "post", {""}) /\ Follows(p, j, "resp", {"ok", "not_ok"})
          /\ e.op = "stale" =>
               \A k \in DOMAIN runs[p].trace :
                 (/\ runs[p].trace[k].u = e.u
                  /\ runs[p].trace[k].token = e.token) =>
                   runs[p].trace[k].op = "stale"

C20_GateStep ==
  \A p \in Procs :
    (/\ runs'[p] # runs[p]
     /\ runs'[p].pc = "gate"
     /\ HasStalenessGate(unfurlers[runs'[p].u])) =>
      now - runs'[p].msg.ts <= slack_trigger_message_ttl

C20_StepOrder ==
  []C20_Order /\ [][C20_GateStep]_vars

\* a run is done whose trace is the read, the lookup, the post, its answer
\* and the write of one token, in that order
C20_FullPipeline ==
  \E p \in Procs :
    /\ runs[p].pc = "done"
    /\ Len(runs[p].trace) = 5
    /\ runs[p].trace[1].op = "read" /\ runs[p].trace[1].res = "absent"
    /\ runs[p].trace[2].op = "fetch"
    /\ runs[p].trace[3].op = "post"
    /\ runs[p].trace[4].op = "resp"
    /\ runs[p].trace[5].op = "write"

\* message m was consumed from the stream when it was eligible for a reply
WasConsumed(m) == \E l \in logged : l.id = m.id /\ l.eligible

\* a reply to message m has been posted
WasReplied(m) == \E x \in replies : x.msg = m.id

\* some message consumed when eligible has no reply yet
Pending == \E m \in Messages : WasConsumed(m) /\ ~WasReplied(m)

\* C21: while the lookup and the post succeed, every message consumed from
\* the stream that is not from a bot, not stale, and has a token with no live
\* record is eventually replied to.
C21_ConsumedIsReplied == Pending ~> ~Pending

\* extract_issues has been called on the text
Extracted1 == issue_keys # <<>>

\* the keys the first call returned
Found == Range(issue_keys[1])

\* the places at which key k stands in the text
PlacesOf(k) == {layout[i].place : i \in {j \in DOMAIN layout : layout[j].key = k}}

\* key k stands in the text, and only at places of S
OnlyAt(k, S) == PlacesOf(k) # {} /\ PlacesOf(k) \subseteq S

CodePlaces == {"fenced", "fenced_lines", "inline"}

Part(place, key) == [place |-> place, key |-> key]

DM2 == <<"D", "M", "-", "2">>

DM10 == <<"D", "M", "-", "1", "0">>

RFC1 == <<"R", "F", "C", "-", "1">>

\* C22: every call of extract_issues on a text returns the same list, and
\* the list is in strictly ascending code point order, so that no key is in it
\* twice, however many times the key stands in the text.
C22_SortedNoDuplicates ==
  /\ \A i, j \in DOMAIN issue_keys : issue_keys[i] = issue_keys[j]
  /\ \A i \in DOMAIN issue_keys : \A a, b \in DOMAIN issue_keys[i] :
       a < b => StrLess(issue_keys[i][a], issue_keys[i][b])

\* extract_issues was called twice on "DM-2 DM-10 DM-2" and returned DM-10,
\* DM-2 both times
C22_CalledTwice ==
  /\ layout = <<Part("bare", DM2), Part("bare", DM10), Part("bare", DM2)>>
  /\ issue_keys = << <<DM10, DM2>>, <<DM10, DM2>> >>

\* C23: a key that stands only in fenced blocks (on one line or over several)
\* or inline code spans is not returned, a bare key beside a code span is
\* returned, and a text of code spans only gives the empty list.
C23_CodeSpansSkipped ==
  Extracted1 =>
    /\ \A k \in Keys : OnlyAt(k, CodePlaces) => k \notin Found
    /\ \A k \in Keys :
         /\ "bare" \in PlacesOf(k)
         /\ \E i \in DOMAIN layout : layout[i].place \in CodePlaces
         => k \in Found
    /\ (layout # <<>> /\ \A i \in DOMAIN layout : layout[i].place \in CodePlaces)
         => issue_keys[1] = <<>>
    /\ text = TestCode => issue_keys[1] = << <<"D", "M", "-", "1", "2", "3", "4">> >>

\* a fenced block over three lines holds DM-2, DM-10 stands bare after it:
\* DM-10 alone is returned
C23_FencedAndBare ==
  /\ Extracted1
  /\ layout = <<Part("fenced_lines", DM2), Part("bare", DM10)>>
  /\ issue_keys[1] = <<DM10>>

C25_PrefixOnlyBeforeKey ==
  Extracted1 =>
    /\ \A k \in Keys : OnlyAt(k, {"browse"}) => k \in Found
    /\ \A k \in Keys : OnlyAt(k, {"browse_path"}) => k \notin Found

\* s is PREFIX-digits for a configured project PREFIX
IsKey(s) ==
  \E i \in DOMAIN get_projects :
    LET n == Len(get_projects[i]) + 1
    IN  /\ StartsWith(s, get_projects[i] \o <<"-">>)
        /\ Len(s) > n
        /\ \A k \in (n + 1)..Len(s) : s[k] \in Digits

\* C26: every returned token is PREFIX-digits for a configured project; a key
\* written in lower case or glued to a preceding word character is not
\* returned; every bare key is returned, as in the text of the test.
C26_KeyForm ==
  Extracted1 =>
    /\ \A t \in Found : IsKey(t)
    /\ \A k \in Keys : OnlyAt(k, {"lower", "glued"}) => k \notin Found
    /\ \A k \in Keys : "bare" \in PlacesOf(k) => k \in Found
    /\ text = TestPlain
         => issue_keys[1] = << <<"D", "M", "-", "1", "2", "3", "4">>,
                               <<"D", "M", "-", "5", "6", "7", "8">>, RFC1 >>

\* the text is "xDM-2" and a bare RFC-1: RFC-1 alone is returned
C26_GluedAndBare ==
  /\ Extracted1
  /\ layout = <<Part("glued", DM2), Part("bare", RFC1)>>
  /\ issue_keys[1] = <<RFC1>>

\* one character escaped for Slack
EscapeChar(c) ==
  CASE c = "&" -> Amp [] c = "<" -> Lt [] c = ">" -> Gt [] OTHER -> <<c>>

\* every character of s escaped, each on its own
RECURSIVE EscapeEach(_)
EscapeEach(s) ==
  IF s = <<>> THEN <<>> ELSE EscapeChar(Head(s)) \o EscapeEach(Tail(s))

\* s from its first to its last character that is not whitespace
Trimmed(s) ==
  LET N == {i \in DOMAIN s : ~IsSpace(s[i])}
  IN  IF N = {} THEN <<>> ELSE SubSeq(s, Min(N), Max(N))

\* the escaped form of the string given
Escaped == EscapeEach(Trimmed(string))

Ellipsis == <<" ", "[", ".", ".", ".", "]">>

\* C27: when the escaped form of the string is no longer than the maximum
\* length, it is returned as it is; when it is longer, what is returned is no
\* longer than the maximum length.
C27_RoundTrip ==
  formatted # None =>
    IF Len(Escaped) <= max_length
    THEN formatted[1] = Escaped
    ELSE Len(formatted[1]) <= max_length

\* C28: when the escaped form is longer than the maximum length, what is
\* returned is its prefix up to the last newline whose index (from 0) is at
\* most max_length - 6, or its first max_length - 6 characters when there is
\* no such newline, followed by " [...]".
C28_LastNewline ==
  (formatted # None /\ Len(Escaped) > max_length) =>
    LET N == {i \in 0..(max_length - 6) :
                i < Len(Escaped) /\ Escaped[i + 1] = "\n"}
    IN  formatted[1] =
          IF N = {} THEN SubSeq(Escaped, 1, max_length - 6) \o Ellipsis
          ELSE SubSeq(Escaped, 1, Max(N)) \o Ellipsis

\* C29: what is returned is the string without its leading and trailing
\* whitespace and with each "&", "<" and ">" replaced once by its entity, as
\* a whole when that fits the maximum length and else a prefix of it followed
\* by " [...]".
C29_EscapedOnce ==
  formatted # None =>
    /\ Len(Escaped) <= max_length => formatted[1] = Escaped
    /\ \/ formatted[1] = Escaped
       \/ \E n \in 0..Len(Escaped) :
            formatted[1] = SubSeq(Escaped, 1, n) \o Ellipsis

\* " <&\n" was formatted with room for nine characters: "&lt;&amp;"
C29_BothEscaped ==
  /\ string = <<" ", "<", "&", "\n">>
  /\ max_length = 9
  /\ formatted = Some(Lt \o Amp)

\* C30: the summary from_json makes of an issue record has no date_resolved
\* exactly when the record's resolutiondate is null, no assignee_name exactly
\* when its assignee is null, and the Jira root URL, "/browse/" and the
\* record's key as its homepage.
C30_FromJson ==
  issue # None =>
    /\ issue[1].date_resolved = None <=> data[1].fields.resolutiondate = None
    /\ issue[1].assignee_name = None <=> data[1].fields.assignee = None
    /\ issue[1].homepage = BrowsePrefix \o data[1].key
    /\ issue[1].key = data[1].key

\* the summary of an unresolved, unassigned DM-2 was made
C30_OpenUnassigned ==
  /\ issue # None
  /\ data[1].key = DM2
  /\ data[1].fields.resolutiondate = None
  /\ data[1].fields.assignee = None
  /\ issue[1].date_resolved = None
  /\ issue[1].assignee_name = None
  /\ issue[1].homepage =
       jira_root_url \o <<"/", "b", "r", "o", "w", "s", "e", "/">> \o DM2

\* C31: every answer of the staleness test is "stale" exactly when the time
\* of the call less the message's own ts is strictly greater than the window,
\* whatever was asked before and about whichever other messages.
C31_OwnTimestamp ==
  \A g \in gated : g.stale <=> (g.t - g.ts > slack_trigger_message_ttl)

\* at time 61 the message of time 0 was refused (age 61) after it had passed
\* at time 30, the message of time 1 passed (age 60, the window), and the
\* message of time 100 passed before it was sent
C31_AtTheWindow ==
  /\ [id |-> "s1", ts |-> 0, t |-> 30, stale |-> FALSE] \in gated
  /\ [id |-> "s1", ts |-> 0, t |-> 61, stale |-> TRUE] \in gated
  /\ [id |-> "s2", ts |-> 1, t |-> 61, stale |-> FALSE] \in gated
  /\ [id |-> "s3", ts |-> 100, t |-> 61, stale |-> FALSE] \in gated

\* a record of the scope of ev has been written by some run
WrittenFor(ev) ==
  \E h \in history : h.ev.op = "write" /\ Scope(h.ev) = Scope(ev)

\* the record under the key of the scope of ev is in the store and its
\* lifetime is not over
Unexpired(ev) ==
  /\ EventKey(ev) \in DOMAIN store
  /\ now < store[EventKey(ev)].expires

\* the events the step adds to the trace of the run of p
Gained(p) ==
  {runs'[p].trace[j] : j \in DOMAIN runs'[p].trace \ DOMAIN runs[p].trace}

\* C32: in every interleaving of the runs, a run whose debounce read for a
\* scope is made after a record of that scope was written and before the
\* record has expired finds the record, makes no lookup and sends nothing
\* for the token; and a request is only sent by a run whose own debounce
\* read for the token found no record.
C32_ReadAfterWrite ==
  [][\A p \in Procs :
       /\ (/\ runs[p].pc = "gate"
           /\ runs'[p] # runs[p]
           /\ WrittenFor(Ev("read", p, ""))
           /\ Unexpired(Ev("read", p, ""))) =>
            /\ \A e \in Gained(p) :
                 Scope(e) = Scope(Ev("read", p, "")) =>
                   e.op = "read" /\ e.res \in {"found", "error"}
            /\ runs'[p].pc \notin {"enrich", "post", "record"}
            /\ inflight' = inflight
            /\ replies' = replies
       /\ (\E x \in inflight' \ inflight : x.proc = p) =>
            \E j \in DOMAIN runs[p].trace :
              /\ runs[p].trace[j].op = "read"
              /\ runs[p].trace[j].res = "absent"
              /\ runs[p].trace[j].u = runs[p].u
              /\ Scope(runs[p].trace[j]) = Scope(Ev("read", p, ""))]_vars

\* one consumer has written the record of a scope after its reply, and the
\* run of another consumer, which read after that write, found the record;
\* time has passed in between and the record is still alive
C32_ReadFoundAfterWrite ==
  \E p, q \in Procs :
    /\ p # q
    /\ now > 0
    /\ \E h \in history :
         /\ h.run = runs[p].n
         /\ h.ev.op = "write"
         /\ Unexpired(h.ev)
         /\ \E x \in replies : x.run = h.run /\ Scope(x) = Scope(h.ev)
         /\ \E j \in DOMAIN runs[q].trace :
              /\ runs[q].trace[j].op = "read"
              /\ runs[q].trace[j].res = "found"
              /\ Scope(runs[q].trace[j]) = Scope(h.ev)
         /\ \A x \in replies : Scope(x) = Scope(h.ev) => x.run = h.run

\* the reply of the run of p goes where its trigger message is
ReplyToTrigger(p) ==
  /\ runs[p].reply.channel = Some(runs[p].msg.channel)
  /\ runs[p].reply.thread_ts = runs[p].msg.thread_ts

\* the write of the record has been called for the token of h, or is the
\* next call of its run
WriteCalled(h) ==
  \/ WritePending(h)
  \/ \E g \in SameUnit(h) : g.ev.op \in {"write", "write_failed"}

C34_NoRawAngle ==
  formatted # None =>
    \A k \in DOMAIN formatted[1] : formatted[1][k] \notin {"<", ">"}

\* "<a>aa" was formatted with room for nine characters and cut within its
\* first entity: "&lt [...]"
C34_TruncatedEscaped ==
  /\ string = <<"<", "a", ">", "a", "a">>
  /\ max_length = 9
  /\ formatted = Some(<<"&", "l", "t">> \o Ellipsis)

====
